---- MODULE Spec2Model ----
(***************************************************************************)
(* A model of libwyag.py: the KVLM codec (kvlm_parse / kvlm_serialize),    *)
(* the object store (object_write / object_read over the .git/objects      *)
(* directory), the commit walker (log_graphviz) and repository discovery   *)
(* (repo_find / GitRepository.__init__).                                   *)
(*                                                                         *)
(* Byte strings are sequences of one-character strings; positions are      *)
(* 0-based as in Python, so raw[i] of the source is At(raw, i).            *)
(***************************************************************************)
EXTENDS Integers, Sequences, FiniteSets, TLC

VARIABLES
    \* ---- KVLM codec ----
    kmode,      \* how the input was produced: "bytes", "text" or "doc"
    kdoc,       \* the document that was serialized to give raw (mode "doc")
    raw,        \* kvlm_parse: argument raw
    kstart,     \* kvlm_parse: argument start of the current call
    kdict,      \* kvlm_parse: argument dict (the OrderedDict being filled)
    kend,       \* kvlm_parse: local end of the continuation-line scan
    kdepth,     \* number of nested kvlm_parse frames
    kpc,        \* position: "call", "scan", "store", "returned", "raised", "serialized"
    kexc,       \* the exception raised, if any
    kout,       \* kvlm_serialize(kvlm_parse(raw)) once computed
    \* ---- object store ----
    fs,         \* the metadata area: path -> absent, directory or file
    written,    \* object -> digest returned by an object_write into the repo
    last,       \* the latest object_write / object_read call and its outcome
    \* ---- log_graphviz ----
    lpc,        \* "idle", "running", "returned" or "raised"
    lstart,     \* the digest the walk was started at
    lstack,     \* the call stack of log_graphviz frames
    lseen,      \* the set seen
    lout,       \* the declarations printed so far
    lexc,       \* the exception that ended the walk, if any
    \* ---- repo_find ----
    gitmeta,    \* directory -> what its entry ".git" is
    fstart,     \* repo_find: the path the caller passed
    frequired,  \* repo_find: argument required
    fpath,      \* repo_find: argument path of the current call
    fcalls,     \* number of repo_find calls made so far
    fpc,        \* "call", "returned" or "raised"
    fresult     \* what repo_find returned or raised

kvars == <<kmode, kdoc, raw, kstart, kdict, kend, kdepth, kpc, kexc, kout>>
svars == <<fs, written, last>>
lvars == <<lpc, lstart, lstack, lseen, lout, lexc>>
fvars == <<gitmeta, fstart, frequired, fpath, fcalls, fpc, fresult>>

vars == <<kvars, svars, lvars, fvars>>

-----------------------------------------------------------------------------
\* Bounds

MaxLen == 5         \* longest arbitrary byte string handed to kvlm_parse
MaxFields == 3      \* most field lines in a generated well-formed text
MaxRecursion == 8   \* frames before the interpreter raises RecursionError
MaxExternal == 2    \* most object files placed in the store by other tools
MaxStart == 3       \* most components of the path handed to repo_find

-----------------------------------------------------------------------------
\* Python byte-string primitives

SP == " "
NL == "\n"
NUL == "NUL"

At(s, i) == s[i + 1]

\* bytes.find(c, from): lowest index >= from holding c, or -1; a negative
\* from counts from the end of s
Find(s, c, from) ==
    LET lo   == IF from >= 0 THEN from
                ELSE IF Len(s) + from < 0 THEN 0 ELSE Len(s) + from
        hits == {i \in 0..(Len(s) - 1) : i >= lo /\ At(s, i) = c}
    IN  IF hits = {} THEN -1
        ELSE CHOOSE i \in hits : \A j \in hits : i <= j

\* s[lo:hi] with Python's treatment of negative and out-of-range bounds
PySlice(s, lo, hi) ==
    LET n   == Len(s)
        fix(i) == IF i < 0 THEN (IF n + i < 0 THEN 0 ELSE n + i)
                  ELSE (IF i > n THEN n ELSE i)
        l   == fix(lo)
        h   == fix(hi)
    IN  IF l < h THEN SubSeq(s, l + 1, h) ELSE <<>>

\* s[lo:]
PyTail(s, lo) == PySlice(s, lo, Len(s))

RECURSIVE Unfold(_)
\* value.replace(b"\n ", b"\n")
Unfold(s) ==
    IF Len(s) < 2 THEN s
    ELSE IF s[1] = NL /\ s[2] = SP THEN <<NL>> \o Unfold(SubSeq(s, 3, Len(s)))
    ELSE <<s[1]>> \o Unfold(Tail(s))

RECURSIVE Fold(_)
\* v.replace(b"\n", b"\n ")
Fold(s) ==
    IF s = <<>> THEN <<>>
    ELSE IF s[1] = NL THEN <<NL, SP>> \o Fold(Tail(s))
    ELSE <<s[1]>> \o Fold(Tail(s))

-----------------------------------------------------------------------------
\* The OrderedDict: a sequence of entries in insertion order.  An entry holds
\* either one value (islist = FALSE, vals of length 1) or a Python list.

NoneKey == <<"<None>">>

Entry(k, l, vs) == [key |-> k, islist |-> l, vals |-> vs]

HasKey(d, k) == \E i \in 1..Len(d) : d[i].key = k

IndexOf(d, k) == CHOOSE i \in 1..Len(d) : d[i].key = k

\* lines 417-423: append to a list, promote to a list, or insert
DictAdd(d, k, v) ==
    IF HasKey(d, k)
    THEN LET i == IndexOf(d, k)
         IN  [d EXCEPT ![i] = Entry(k, TRUE, Append(d[i].vals, v))]
    ELSE Append(d, Entry(k, FALSE, <<v>>))

\* dict[None] = ...
DictSetMessage(d, m) ==
    IF HasKey(d, NoneKey)
    THEN [d EXCEPT ![IndexOf(d, NoneKey)] = Entry(NoneKey, FALSE, <<m>>)]
    ELSE Append(d, Entry(NoneKey, FALSE, <<m>>))

Message(d) == d[IndexOf(d, NoneKey)].vals[1]

RECURSIVE SerializeVals(_, _)
\* lines 441-442: one folded line per value of key k
SerializeVals(k, vs) ==
    IF vs = <<>> THEN <<>>
    ELSE k \o <<SP>> \o Fold(vs[1]) \o <<NL>> \o SerializeVals(k, Tail(vs))

RECURSIVE SerializeFields(_)
\* lines 432-442: the fields in iteration order, the message skipped
SerializeFields(d) ==
    IF d = <<>> THEN <<>>
    ELSE (IF d[1].key = NoneKey THEN <<>> ELSE SerializeVals(d[1].key, d[1].vals))
         \o SerializeFields(Tail(d))

\* lines 428-447 (defined when the document has a message)
kvlm_serialize(d) == SerializeFields(d) \o <<NL>> \o Message(d) \o <<NL>>

-----------------------------------------------------------------------------
\* Decimal numbers: str(n).encode() and int(bytes.decode("ascii"))

Digits == <<"0", "1", "2", "3", "4", "5", "6", "7", "8", "9">>

DigitSet == {Digits[i] : i \in 1..10}

DigitVal(c) == (CHOOSE i \in 1..10 : Digits[i] = c) - 1

RECURSIVE Str(_)
Str(n) == IF n < 10 THEN <<Digits[n + 1]>> ELSE Str(n \div 10) \o <<Digits[(n % 10) + 1]>>

RECURSIVE Strip(_)
\* surrounding whitespace, which int() ignores
Strip(s) ==
    IF s = <<>> THEN s
    ELSE IF s[1] \in {SP, NL} THEN Strip(Tail(s))
    ELSE IF s[Len(s)] \in {SP, NL} THEN Strip(SubSeq(s, 1, Len(s) - 1))
    ELSE s

RECURSIVE DecVal(_)
DecVal(s) == IF s = <<>> THEN 0 ELSE 10 * DecVal(SubSeq(s, 1, Len(s) - 1)) + DigitVal(s[Len(s)])

\* int(s): the value, or -1 where Python raises ValueError
PyInt(s) ==
    LET t == Strip(s)
    IN  IF t # <<>> /\ \A i \in 1..Len(t) : t[i] \in DigitSet THEN DecVal(t) ELSE -1

-----------------------------------------------------------------------------
\* zlib and SHA-1

\* zlib.compress: a stream that starts with the zlib header
Compress(b) == <<"zlib">> \o b

IsZlib(d) == d # <<>> /\ d[1] = "zlib"

\* zlib.decompress of a well-formed stream
Decompress(d) == Tail(d)

\* hashlib.sha1(b).hexdigest(), tabulated for the framed objects of the model
sha1_hexdigest(b) ==
    CASE b = <<"c", "o", "m", "m", "i", "t", SP, "3", NUL, NL, "r", NL>>
        -> <<"1", "0", "3", "0", "1", "4", "4", "c", "5", "7", "8", "7", "e", "5", "1", "7", "c", "3", "e", "5", "0", "f", "6", "8", "a", "0", "0", "7", "8", "b", "7", "b", "0", "9", "a", "a", "f", "0", "9", "c">>
      [] b = <<"c", "o", "m", "m", "i", "t", SP, "5", "1", NUL, "p", "a", "r", "e", "n", "t", SP, "1", "0", "3", "0", "1", "4", "4", "c", "5", "7", "8", "7", "e", "5", "1", "7", "c", "3", "e", "5", "0", "f", "6", "8", "a", "0", "0", "7", "8", "b", "7", "b", "0", "9", "a", "a", "f", "0", "9", "c", NL, NL, "b", NL>>
        -> <<"e", "b", "c", "1", "c", "c", "b", "9", "0", "0", "8", "8", "b", "b", "8", "f", "e", "3", "0", "6", "8", "5", "7", "5", "d", "e", "8", "2", "9", "9", "6", "d", "1", "f", "f", "1", "b", "1", "6", "2">>
      [] b = <<"c", "o", "m", "m", "i", "t", SP, "5", "2", NUL, "p", "a", "r", "e", "n", "t", SP, "1", "0", "3", "0", "1", "4", "4", "c", "5", "7", "8", "7", "e", "5", "1", "7", "c", "3", "e", "5", "0", "f", "6", "8", "a", "0", "0", "7", "8", "b", "7", "b", "0", "9", "a", "a", "f", "0", "9", "c", NL, NL, "b", "d", NL>>
        -> <<"e", "b", "7", "5", "9", "b", "a", "e", "9", "1", "f", "6", "5", "7", "f", "e", "8", "e", "d", "e", "2", "d", "2", "9", "3", "a", "f", "e", "f", "9", "4", "4", "8", "1", "2", "5", "2", "2", "a", "e">>
-----------------------------------------------------------------------------
\* Objects (GitObject and its subclasses)

B_commit == <<"c", "o", "m", "m", "i", "t">>
B_blob == <<"b", "l", "o", "b">>
B_tree == <<"t", "r", "e", "e">>
B_tag == <<"t", "a", "g">>
B_parent == <<"p", "a", "r", "e", "n", "t">>

GitCommitObj(kvlm) == [cls |-> "GitCommit", kvlm |-> kvlm, blobdata |-> <<>>]
GitBlobObj(data) == [cls |-> "GitBlob", kvlm |-> <<>>, blobdata |-> data]

\* the methods each class body leaves defined: a second def of the same name
\* replaces the first (lines 289-293, 453-460)
ClassMethods(cls) ==
    CASE cls = "GitBlob" -> {"serialize(self, data)"}
      [] cls = "GitCommit" -> {"serialize(self)", "init"}

object_type(o) == IF o.cls = "GitCommit" THEN B_commit ELSE B_blob

Ok(v) == [status |-> "ok", value |-> v, exc |-> ""]
Raise(e) == [status |-> "raise", value |-> <<>>, exc |-> e]
RetNone == [status |-> "none", value |-> <<>>, exc |-> ""]

\* obj.serialize() as object_write calls it, without arguments
Serialize(o) ==
    IF "serialize(self)" \notin ClassMethods(o.cls)
    THEN Raise("TypeError")
    ELSE IF ~HasKey(o.kvlm, NoneKey) THEN Raise("KeyError")
    ELSE Ok(kvlm_serialize(o.kvlm))

\* GitObject.__init__(data) with data != None: deserialize is only defined
\* by the base class, which raises
GitObjectNew(cls, data) ==
    IF "deserialize" \in ClassMethods(cls)
    THEN Ok([cls |-> cls, kvlm |-> <<>>, blobdata |-> data])
    ELSE Raise("Unimplemented!")

\* the commits of the model: a root and two children of it, whose digests
\* share their first two characters
MkDoc(parents, msg) ==
    (IF parents = <<>> THEN <<>>
     ELSE <<Entry(B_parent, Len(parents) > 1, parents)>>)
    \o <<Entry(NoneKey, FALSE, <<msg>>)>>

Frame(type, data) == type \o <<SP>> \o Str(Len(data)) \o <<NUL>> \o data

DigestOf(doc) == sha1_hexdigest(Frame(B_commit, kvlm_serialize(doc)))

DocR == MkDoc(<<>>, <<"r">>)
DocA == MkDoc(<<DigestOf(DocR)>>, <<"b">>)
DocB == MkDoc(<<DigestOf(DocR)>>, <<"b", "d">>)

CommitDocs == {DocR, DocA, DocB}

\* what callers hand to object_write
Objs == {GitCommitObj(d) : d \in CommitDocs}
        \cup {GitCommitObj(<<>>), GitBlobObj(<<"h", "i">>)}

Shas == {DigestOf(d) : d \in CommitDocs}

NoSha == <<>>

-----------------------------------------------------------------------------
\* The metadata area as a map from paths (relative to .git) to entries

Absent == [kind |-> "absent", data |-> <<>>]
Dir == [kind |-> "dir", data |-> <<>>]
File(d) == [kind |-> "file", data |-> d]

P_objects == <<"objects">>
FanDir(sha) == <<"objects", PySlice(sha, 0, 2)>>
FanFile(sha) == <<"objects", PySlice(sha, 0, 2), PyTail(sha, 2)>>

Paths == {<<>>, P_objects} \cup {FanDir(s) : s \in Shas} \cup {FanFile(s) : s \in Shas}

NonePath == <<"<None>">>

Parent(p) == SubSeq(p, 1, Len(p) - 1)

Exists(f, p) == f[p].kind # "absent"
IsDir(f, p) == f[p].kind = "dir"
IsFile(f, p) == f[p].kind = "file"

RECURSIVE MakeDirs(_, _)
\* os.makedirs(p): p and its missing ancestors become directories
MakeDirs(f, p) ==
    LET g == IF p = <<>> \/ Exists(f, Parent(p)) THEN f ELSE MakeDirs(f, Parent(p))
    IN  [g EXCEPT ![p] = Dir]

\* repo_dir (lines 106-119): value is the path, fs the file system afterwards
repo_dir(f, p, mkdir) ==
    IF Exists(f, p)
    THEN IF IsDir(f, p)
         THEN [status |-> "ok", value |-> p, exc |-> "", fs |-> f]
         ELSE [status |-> "raise", value |-> <<>>, exc |-> "Not a directory", fs |-> f]
    ELSE IF mkdir
         THEN IF \E i \in 0..(Len(p) - 1) : IsFile(f, SubSeq(p, 1, i))
              THEN [status |-> "raise", value |-> <<>>, exc |-> "NotADirectoryError", fs |-> f]
              ELSE [status |-> "ok", value |-> p, exc |-> "", fs |-> MakeDirs(f, p)]
         ELSE [status |-> "none", value |-> NonePath, exc |-> "", fs |-> f]

\* repo_file (lines 97-103): the path if its directory exists, else None
repo_file(f, p, mkdir) ==
    LET d == repo_dir(f, Parent(p), mkdir)
    IN  IF d.status = "ok" THEN [d EXCEPT !.value = p] ELSE d

-----------------------------------------------------------------------------
\* object_read (lines 225-264)

\* the match on object_type and the constructor call
Construct(type, data, sha) ==
    CASE type = B_commit -> GitObjectNew("GitCommit", data)
      [] type = B_tree -> Raise("NameError")
      [] type = B_tag -> Raise("NameError")
      [] type = B_blob -> GitObjectNew("GitBlob", data)
      [] OTHER -> Raise("Unknown type")

\* ReadFrame with the constructor picked before the size is validated
ReadFrameDispatchFirst(b, sha) ==
    LET x    == Find(b, SP, 0)
        type == PySlice(b, 0, x)
        y    == Find(b, NUL, x)
        size == PyInt(PySlice(b, x, y))
    IN  IF size < 0 THEN Raise("ValueError")
        ELSE IF type \notin {B_commit, B_tree, B_tag, B_blob} THEN Raise("Unknown type")
        ELSE IF size # Len(b) - y - 1 THEN Raise("Malformed object: bad length")
        ELSE Construct(type, PyTail(b, y + 1), sha)

\* lines 236-264 on the decompressed bytes
ReadFrame(b, sha) ==
    LET x    == Find(b, SP, 0)
        type == PySlice(b, 0, x)
        y    == Find(b, NUL, x)
        size == PyInt(PySlice(b, x, y))
    IN  IF size < 0 THEN Raise("ValueError")
        ELSE IF size # Len(b) - y - 1 THEN Raise("Malformed object: bad length")
        ELSE Construct(type, PyTail(b, y + 1), sha)

object_read(f, sha) ==
    LET rf == repo_file(f, FanFile(sha), FALSE)
    IN  IF rf.status = "raise" THEN Raise(rf.exc)
        ELSE IF rf.value = NonePath THEN Raise("TypeError")
        ELSE IF ~IsFile(f, rf.value) THEN RetNone
        ELSE IF ~IsZlib(f[rf.value].data) THEN Raise("zlib.error")
        ELSE ReadFrame(Decompress(f[rf.value].data), sha)

-----------------------------------------------------------------------------
\* object_write (lines 267-283): value is the digest, fs the store afterwards

object_write(f, o, withRepo) ==
    LET s == Serialize(o)
    IN  IF s.status # "ok"
        THEN [status |-> "raise", value |-> NoSha, exc |-> s.exc, fs |-> f]
        ELSE
        LET result == Frame(object_type(o), s.value)
            sha    == sha1_hexdigest(result)
            rf     == repo_file(f, FanDir(sha), TRUE)
        IN  IF ~withRepo
            THEN [status |-> "ok", value |-> sha, exc |-> "", fs |-> f]
            ELSE IF rf.status # "ok"
            THEN [status |-> "raise", value |-> NoSha, exc |-> rf.exc, fs |-> rf.fs]
            ELSE [status |-> "ok", value |-> sha, exc |-> "",
                  fs |-> IF ~Exists(rf.fs, rf.value)
                         THEN [rf.fs EXCEPT ![rf.value] = File(Compress(result))]
                         ELSE rf.fs]

-----------------------------------------------------------------------------
\* log_graphviz (lines 476-505): one frame per call; a frame is either at its
\* entry or inside the loop over its parents

LogFrame(sha, stage, todo) == [sha |-> sha, stage |-> stage, todo |-> todo]

LogState(pc, stack, seen, out, exc) ==
    [pc |-> pc, stack |-> stack, seen |-> seen, out |-> out, exc |-> exc]

\* the frame on top of the stack returns
LogReturn(rest, seen, out) ==
    LogState(IF rest = <<>> THEN "returned" ELSE "running", rest, seen, out, "")

\* one step of the frame on top of the stack
log_graphviz(f, stack, seen, out) ==
    LET top  == stack[Len(stack)]
        rest == SubSeq(stack, 1, Len(stack) - 1)
        sha  == top.sha
    IN  IF top.stage = "enter"
        THEN IF sha \in seen
             THEN LogReturn(rest, seen, out)
             ELSE
             LET seen1 == seen \cup {sha}
                 r     == object_read(f, sha)
             IN  IF r.status = "raise"
                 THEN LogState("raised", stack, seen1, out, r.exc)
                 ELSE IF r.status = "none"
                 THEN LogState("raised", stack, seen1, out, "AttributeError")
                 ELSE
                 LET commit == r.value
                     out1   == Append(out, <<"node", sha>>)
                 IN  IF ~HasKey(commit.kvlm, NoneKey)
                     THEN LogState("raised", stack, seen1, out, "KeyError")
                     ELSE IF object_type(commit) # B_commit
                     THEN LogState("raised", stack, seen1, out1, "AssertionError")
                     ELSE IF ~HasKey(commit.kvlm, B_parent)
                     THEN LogReturn(rest, seen1, out1)
                     ELSE LogState("running",
                                   Append(rest, LogFrame(sha, "loop",
                                       commit.kvlm[IndexOf(commit.kvlm, B_parent)].vals)),
                                   seen1, out1, "")
        ELSE IF top.todo = <<>>
             THEN LogReturn(rest, seen, out)
             ELSE LogState("running",
                           rest \o <<LogFrame(sha, "loop", Tail(top.todo)),
                                     LogFrame(top.todo[1], "enter", <<>>)>>,
                           seen, Append(out, <<"edge", sha, top.todo[1]>>), "")

-----------------------------------------------------------------------------
\* Repository discovery: directories are absolute paths, sequences of names

Names == {"a", "b"}
UP == ".."

RECURSIVE RealPath(_)
\* os.path.realpath on a path without symbolic links: ".." drops the
\* component before it, and the parent of the root is the root
RealPath(p) ==
    IF p = <<>> THEN <<>>
    ELSE LET q == RealPath(SubSeq(p, 1, Len(p) - 1))
         IN  IF p[Len(p)] = UP
             THEN (IF q = <<>> THEN <<>> ELSE SubSeq(q, 1, Len(q) - 1))
             ELSE Append(q, p[Len(p)])

\* what the entry ".git" of a directory is:
\*   "none"      no such entry             "file"   a regular file
\*   "noconfig"  a directory, no config    "nocore" config without [core]
\*   "v1"        repositoryformatversion 1 "ok"     repositoryformatversion 0
GitStates == {"none", "file", "noconfig", "nocore", "v1", "ok"}

MetaOf(meta, p) == IF p \in DOMAIN meta THEN meta[p] ELSE "none"

\* os.path.isdir(os.path.join(path, ".git")) with any entry accepted
GitEntryExists(meta, p) == MetaOf(meta, p) # "none"

\* os.path.isdir(os.path.join(path, ".git")) (lines 72, 185)
IsGitDir(meta, p) == MetaOf(meta, p) \notin {"none", "file"}

\* GitRepository.__init__(path, force=False) (lines 68-87)
GitRepository(meta, p) ==
    IF ~IsGitDir(meta, p) THEN Raise("Not a Git repository")
    ELSE IF MetaOf(meta, p) = "noconfig" THEN Raise("Configuration file missing")
    ELSE IF MetaOf(meta, p) = "nocore" THEN Raise("NoSectionError")
    ELSE IF MetaOf(meta, p) # "ok" THEN Raise("Unsupported repositoryformatversion")
    ELSE Ok([worktree |-> p, gitdir |-> Append(p, ".git")])

\* one call of repo_find (lines 182-200): pc "call" asks for the recursive call
repo_find(meta, p, required) ==
    LET path   == RealPath(p)
        parent == RealPath(Append(path, UP))
    IN  IF IsGitDir(meta, path)
        THEN [pc |-> "done", path |-> path, result |-> GitRepository(meta, path)]
        ELSE IF parent = path
        THEN [pc |-> "done", path |-> path,
              result |-> IF required THEN Raise("No git directory.") ELSE RetNone]
        ELSE [pc |-> "call", path |-> parent, result |-> RetNone]

FindIdle ==
    /\ gitmeta = <<>> /\ fstart = <<>> /\ frequired = FALSE /\ fpath = <<>>
    /\ fcalls = 0 /\ fpc = "off" /\ fresult = RetNone

-----------------------------------------------------------------------------
\* Idle values of the parts a specification does not exercise

LastIdle ==
    [op |-> "none", arg |-> <<>>, repo |-> FALSE, status |-> "", value |-> <<>>,
     exc |-> "", again |-> FALSE, prev |-> NoSha, changed |-> FALSE]

LogIdle ==
    /\ lpc = "idle" /\ lstart = NoSha /\ lstack = <<>> /\ lseen = {}
    /\ lout = <<>> /\ lexc = ""

LogReset ==
    /\ lpc' = "idle" /\ lstart' = NoSha /\ lstack' = <<>> /\ lseen' = {}
    /\ lout' = <<>> /\ lexc' = ""

StoreIdle ==
    /\ fs = <<>>
    /\ written = <<>>
    /\ last = LastIdle

-----------------------------------------------------------------------------
\* Inputs of the codec

BoundedSeq(S, n) == UNION {[1..m -> S] : m \in 0..n}

ByteAlphabet == {"a", SP, NL}
Keys == {<<"a">>, <<"b">>}
Vals == {<<"1">>, <<"1", NL, "2">>}
Msgs == {<<>>, <<"m">>}

\* arbitrary byte strings, well-formed or not
AnyBytes == BoundedSeq(ByteAlphabet, MaxLen)

RECURSIVE RenderLines(_)
\* `key value` lines, embedded newlines folded into continuation lines
RenderLines(ls) ==
    IF ls = <<>> THEN <<>>
    ELSE ls[1][1] \o <<SP>> \o Fold(ls[1][2]) \o <<NL>> \o RenderLines(Tail(ls))

\* well-formed texts: field lines, one blank line, the message
WellFormedTexts ==
    {RenderLines(ls) \o <<NL>> \o m : ls \in BoundedSeq(Keys \X Vals, MaxFields), m \in Msgs}

\* a field value of a document: one value, or a list of two
Shapes == {Entry(<<>>, FALSE, <<v>>) : v \in Vals}
          \cup {Entry(<<>>, TRUE, <<v, w>>) : v \in Vals, w \in Vals}

KeyOrders == {ko \in BoundedSeq(Keys, Cardinality(Keys)) :
                 \A i, j \in 1..Len(ko) : i # j => ko[i] # ko[j]}

\* valid documents: distinct keys in some order, then the message
Docs ==
    UNION {{[i \in 1..Len(ko) |-> Entry(ko[i], f[i].islist, f[i].vals)]
              \o <<Entry(NoneKey, FALSE, <<m>>)>> :
               f \in [1..Len(ko) -> Shapes], m \in Msgs} : ko \in KeyOrders}

-----------------------------------------------------------------------------
\* kvlm_parse as a state machine: one frame per recursive call

KvlmIdle ==
    /\ kmode = "off" /\ kdoc = <<>> /\ raw = <<>> /\ kstart = 0 /\ kdict = <<>>
    /\ kend = 0 /\ kdepth = 0 /\ kpc = "off" /\ kexc = "" /\ kout = <<>>

\* kvlm_parse(raw) is called with start=0, dict=None
InitKvlm ==
    /\ \/ kmode = "bytes" /\ kdoc = <<>> /\ raw \in AnyBytes
       \/ kmode = "text" /\ kdoc = <<>> /\ raw \in WellFormedTexts
       \/ kmode = "doc" /\ kdoc \in Docs /\ raw = kvlm_serialize(kdoc)
    /\ kstart = 0 /\ kdict = <<>> /\ kend = 0 /\ kdepth = 1
    /\ kpc = "call" /\ kexc = "" /\ kout = <<>>
    /\ StoreIdle /\ LogIdle /\ FindIdle

KvlmRaise(e) ==
    /\ kpc' = "raised" /\ kexc' = e
    /\ UNCHANGED <<kmode, kdoc, raw, kstart, kdict, kend, kdepth, kout, svars, lvars, fvars>>

\* lines 382-397: find the next space and newline; the base case stores the
\* message, the recursive case starts the continuation-line scan at start
KvlmEnter ==
    /\ kpc = "call"
    /\ LET space   == Find(raw, SP, kstart)
           endline == Find(raw, NL, kstart)
       IN  IF space < 0 \/ endline < space
           THEN IF endline # kstart
                THEN KvlmRaise("AssertionError")
                ELSE /\ kdict' = DictSetMessage(kdict, PyTail(raw, kstart + 1))
                     /\ kpc' = "returned"
                     /\ UNCHANGED <<kmode, kdoc, raw, kstart, kend, kdepth, kexc, kout, svars, lvars, fvars>>
           ELSE /\ kend' = kstart
                /\ kpc' = "scan"
                /\ UNCHANGED <<kmode, kdoc, raw, kstart, kdict, kdepth, kexc, kout, svars, lvars, fvars>>

\* lines 407-410: one iteration of the while loop
KvlmScan ==
    /\ kpc = "scan"
    /\ LET e == Find(raw, NL, kend + 1)
       IN  IF e + 1 >= Len(raw)
           THEN KvlmRaise("IndexError")
           ELSE /\ kend' = e
                /\ kpc' = IF At(raw, e + 1) # SP THEN "store" ELSE "scan"
                /\ UNCHANGED <<kmode, kdoc, raw, kstart, kdict, kdepth, kexc, kout, svars, lvars, fvars>>

\* lines 401, 414-425: grab the value, store it, recurse at end + 1
KvlmStore ==
    /\ kpc = "store"
    /\ LET space == Find(raw, SP, kstart)
           key   == PySlice(raw, kstart, space)
           value == Unfold(PySlice(raw, space + 1, kend))
       IN  /\ kdict' = DictAdd(kdict, key, value)
           /\ IF kdepth + 1 > MaxRecursion
              THEN /\ kpc' = "raised" /\ kexc' = "RecursionError"
                   /\ UNCHANGED <<kstart, kdepth>>
              ELSE /\ kpc' = "call" /\ kexc' = kexc
                   /\ kstart' = kend + 1
                   /\ kdepth' = kdepth + 1
           /\ UNCHANGED <<kmode, kdoc, raw, kend, kout, svars, lvars, fvars>>

\* kvlm_serialize applied to the parsed document
KvlmSerialize ==
    /\ kpc = "returned"
    /\ kout' = kvlm_serialize(kdict)
    /\ kpc' = "serialized"
    /\ UNCHANGED <<kmode, kdoc, raw, kstart, kdict, kend, kdepth, kexc, svars, lvars, fvars>>

NextKvlm == KvlmEnter \/ KvlmScan \/ KvlmStore \/ KvlmSerialize

SpecKvlm == InitKvlm /\ [][NextKvlm]_vars

\* the interpreter keeps running a call that has not returned or raised
FairSpecKvlm == SpecKvlm /\ WF_vars(NextKvlm)

-----------------------------------------------------------------------------
\* The object store: object_write, object_read, files that other tools put
\* into the store, and the commit walk

\* decompressed contents that do not belong under the digest they are stored at
B_hi == <<"h", "i">>
B_zzz == <<"z", "z", "z">>
ForeignFrames ==
    {B_blob \o <<SP, "1", NUL>> \o B_hi,                 \* declared length too small
     B_zzz \o <<SP, "3", NUL>> \o B_hi,                  \* too large, unknown type
     Frame(B_zzz, B_hi)}                                \* unknown type

GenuineFrame(sha) ==
    LET d == CHOOSE c \in CommitDocs : DigestOf(c) = sha
    IN  Frame(B_commit, kvlm_serialize(d))

\* what another tool, or damage to the disk, may leave in objects/xx/yyyy
ExternalContents(sha) ==
    {Compress(GenuineFrame(sha))} \cup {Compress(b) : b \in ForeignFrames}

\* the state repo_create leaves (lines 122-155): an empty objects directory
InitStore ==
    /\ fs = [p \in Paths |-> IF p \in {<<>>, P_objects} THEN Dir ELSE Absent]
    /\ written = [o \in Objs |-> NoSha]
    /\ last = LastIdle
    /\ LogIdle
    /\ KvlmIdle
    /\ FindIdle

ObjectWrite(o, withRepo) ==
    /\ lpc # "running"
    /\ LET r == object_write(fs, o, withRepo)
       IN  /\ fs' = r.fs
           /\ written' = IF withRepo /\ r.status = "ok"
                         THEN [written EXCEPT ![o] = r.value] ELSE written
           /\ last' = [op |-> "write", arg |-> o, repo |-> withRepo,
                       status |-> r.status, value |-> r.value, exc |-> r.exc,
                       again |-> withRepo /\ written[o] # NoSha, prev |-> written[o],
                       changed |-> r.fs # fs]
    /\ LogReset
    /\ UNCHANGED <<kvars, fvars>>

ObjectRead(sha) ==
    /\ lpc # "running"
    /\ LET r == object_read(fs, sha)
       IN  last' = [op |-> "read", arg |-> sha, repo |-> TRUE,
                    status |-> r.status, value |-> r.value, exc |-> r.exc,
                    again |-> FALSE, prev |-> NoSha, changed |-> FALSE]
    /\ LogReset
    /\ UNCHANGED <<fs, written, kvars, fvars>>

\* another tool stores a file in the standard layout objects/xx/yyyy
ExternalStore(sha, content) ==
    /\ lpc # "running"
    /\ Cardinality({s \in Shas : IsFile(fs, FanFile(s))}) < MaxExternal
    /\ ~IsFile(fs, FanDir(sha))
    /\ ~Exists(fs, FanFile(sha))
    /\ fs' = [fs EXCEPT ![FanDir(sha)] = Dir, ![FanFile(sha)] = File(content)]
    /\ last' = LastIdle
    /\ LogReset
    /\ UNCHANGED <<written, kvars, fvars>>

\* cmd_log (line 472): log_graphviz(repo, sha, set())
LogCall(sha) ==
    /\ lpc # "running"
    /\ lpc' = "running"
    /\ lstart' = sha
    /\ lstack' = <<LogFrame(sha, "enter", <<>>)>>
    /\ lseen' = {}
    /\ lout' = <<>>
    /\ lexc' = ""
    /\ last' = LastIdle
    /\ UNCHANGED <<fs, written, kvars, fvars>>

LogStep ==
    /\ lpc = "running"
    /\ LET n == log_graphviz(fs, lstack, lseen, lout)
       IN  /\ lpc' = n.pc
           /\ lstack' = n.stack
           /\ lseen' = n.seen
           /\ lout' = n.out
           /\ lexc' = n.exc
    /\ UNCHANGED <<lstart, fs, written, last, kvars, fvars>>

NextStore ==
    \/ \E o \in Objs, withRepo \in BOOLEAN : ObjectWrite(o, withRepo)
    \/ \E sha \in Shas : ObjectRead(sha)
    \/ \E sha \in Shas : \E c \in ExternalContents(sha) : ExternalStore(sha, c)
    \/ \E sha \in Shas : LogCall(sha)
    \/ LogStep

SpecStore == InitStore /\ [][NextStore]_vars

-----------------------------------------------------------------------------
\* repo_find as a state machine: one step per call

\* start and its ancestors, the only directories a walk can look at
Ancestors(p) == {SubSeq(p, 1, n) : n \in 0..Len(p)}

InitFind ==
    /\ fstart \in BoundedSeq(Names \cup {UP}, MaxStart)
    /\ gitmeta \in [Ancestors(RealPath(fstart)) -> GitStates]
    /\ frequired \in BOOLEAN
    /\ fpath = fstart
    /\ fcalls = 0
    /\ fpc = "call"
    /\ fresult = RetNone
    /\ KvlmIdle /\ StoreIdle /\ LogIdle

RepoFind ==
    /\ fpc = "call"
    /\ LET r == repo_find(gitmeta, fpath, frequired)
       IN  /\ fpath' = r.path
           /\ fresult' = r.result
           /\ fpc' = IF r.pc = "call" THEN "call"
                     ELSE IF r.result.status = "raise" THEN "raised" ELSE "returned"
    /\ fcalls' = fcalls + 1
    /\ UNCHANGED <<gitmeta, fstart, frequired, kvars, svars, lvars>>

NextFind == RepoFind

SpecFind == InitFind /\ [][NextFind]_vars

-----------------------------------------------------------------------------
\* Properties of the object store

\* the files of the store that hold the compressed frame of object o
StoredFilesOf(o) ==
    {p \in Paths : IsFile(fs, p)
                   /\ fs[p].data = Compress(Frame(object_type(o), Serialize(o).value))}

\* C3: a second object_write of the same object into the same repository
\* returns the digest of the first, leaves the store unchanged, and exactly
\* one stored file holds the object
C3_WriteIdempotent ==
    (last.op = "write" /\ last.again) =>
        /\ last.status = "ok"
        /\ last.value = last.prev
        /\ ~last.changed
        /\ Cardinality(StoredFilesOf(last.arg)) = 1

\* C4: every object whose write returned digest d is stored in the file
\* objects/<d[0:2]>/<d[2:40]>, so objects with different digests are stored
\* in different files
C4_StoredAtFanOutPath ==
    /\ \A o \in Objs : written[o] # NoSha =>
           /\ IsFile(fs, FanFile(written[o]))
           /\ FanFile(written[o]) \in StoredFilesOf(o)
    /\ \A o1, o2 \in Objs :
           (written[o1] # NoSha /\ written[o2] # NoSha /\ written[o1] # written[o2]) =>
               \E p1 \in StoredFilesOf(o1), p2 \in StoredFilesOf(o2) : p1 # p2

\* C5: object_read of a digest that has no object file returns None and
\* raises nothing, whether or not the fan-out directory exists
C5_ReadMissingReturnsNone ==
    (last.op = "read" /\ ~IsFile(fs, FanFile(last.arg))) => last.status = "none"

\* b is `<type> <n>\0<payload>` with n different from the length of payload
HasBadLength(b) ==
    \E i \in 1..Len(b), j \in 1..Len(b) :
        /\ j >= i + 2
        /\ b[i] = SP /\ \A k \in 1..(i - 1) : b[k] # SP
        /\ b[j] = NUL /\ \A k \in (i + 1)..(j - 1) : b[k] \in DigitSet
        /\ DecVal(SubSeq(b, i + 1, j - 1)) # Len(b) - j

\* the decompressed bytes of the object file the last object_read opened
LastReadFrame == Decompress(fs[FanFile(last.arg)].data)

LastReadOpenedFile ==
    /\ last.op = "read"
    /\ IsFile(fs, FanFile(last.arg))
    /\ IsZlib(fs[FanFile(last.arg)].data)

\* C6: object_read of a stored object whose declared length differs from the
\* length of its payload fails with the bad-length error, whatever its type
C6_BadLengthIsMalformed ==
    (LastReadOpenedFile /\ HasBadLength(LastReadFrame)) =>
        /\ last.status = "raise"
        /\ last.exc = "Malformed object: bad length"

\* a read of an object of unknown type whose declared length is too large
C6_Witness ==
    /\ LastReadOpenedFile
    /\ HasBadLength(LastReadFrame)
    /\ PySlice(LastReadFrame, 0, 3) = B_zzz
    /\ last.exc = "Malformed object: bad length"

\* C10: every digest returned by an object_write into the repository reads
\* back as an object of the written type with the written payload
C10_ReadAfterWrite ==
    \A o \in Objs : written[o] # NoSha =>
        LET r == object_read(fs, written[o])
        IN  /\ r.status = "ok"
            /\ r.value.cls = o.cls
            /\ Serialize(r.value) = Serialize(o)

\* the commit with digest sha is in the store, in the standard layout
StoredCommit(sha) ==
    /\ IsFile(fs, FanFile(sha))
    /\ fs[FanFile(sha)].data = Compress(GenuineFrame(sha))

ParentsOf(sha) ==
    LET d == CHOOSE c \in CommitDocs : DigestOf(c) = sha
    IN  IF HasKey(d, B_parent) THEN d[IndexOf(d, B_parent)].vals ELSE <<>>

Count(seq, x) == Cardinality({i \in 1..Len(seq) : seq[i] = x})

RECURSIVE ReachFrom(_, _)
\* the commits reachable from those of S over at most n parent links
ReachFrom(S, n) ==
    IF n = 0 THEN S
    ELSE ReachFrom(S \cup {q \in Shas : \E s \in S : Count(ParentsOf(s), q) > 0}, n - 1)

\* C8: a walk over stored commits returns, having printed one node for each
\* reachable commit and one edge for each parent entry of each of them
C8_LogEmitsGraph ==
    (/\ lpc \in {"returned", "raised"}
     /\ \A s \in ReachFrom({lstart}, Cardinality(Shas)) : StoredCommit(s)) =>
        LET R == ReachFrom({lstart}, Cardinality(Shas))
        IN  /\ lpc = "returned"
            /\ \A s \in R : Count(lout, <<"node", s>>) = 1
            /\ \A s \in R : \A q \in Shas :
                   Count(lout, <<"edge", s, q>>) = Count(ParentsOf(s), q)
            /\ \A i \in 1..Len(lout) : lout[i][2] \in R

-----------------------------------------------------------------------------
\* Properties of repo_find

\* directory p contains a metadata subdirectory
HasMetadataDir(p) == gitmeta[p] \in {"noconfig", "nocore", "v1", "ok"}

Candidates == {p \in Ancestors(RealPath(fstart)) : HasMetadataDir(p)}

\* the nearest directory, among start and its ancestors, with a metadata
\* subdirectory
Nearest == CHOOSE p \in Candidates : \A q \in Candidates : Len(q) <= Len(p)

HandleAt(p) == Ok([worktree |-> p, gitdir |-> Append(p, ".git")])

FindEnded == fpc \in {"returned", "raised"}

\* when no directory up to the root has a metadata subdirectory: not found
\* or absent, and in every case at most depth(start) + 1 calls
FindNoneAndBound ==
    /\ fcalls <= Len(RealPath(fstart)) + 1
    /\ (FindEnded /\ Candidates = {}) =>
           IF frequired
           THEN fpc = "raised" /\ fresult = Raise("No git directory.")
           ELSE fpc = "returned" /\ fresult = RetNone

\* C7 as stated: repo_find returns a handle rooted at the nearest directory
\* with a metadata subdirectory; without one it fails when required and
\* returns None otherwise; the walk makes at most depth(start) + 1 calls
C7_FindAsClaimed ==
    /\ FindNoneAndBound
    /\ (FindEnded /\ Candidates # {}) =>
           fpc = "returned" /\ fresult = HandleAt(Nearest)

\* C7 amended: the handle is returned when the configuration of the nearest
\* metadata directory exists and has repositoryformatversion 0; otherwise
\* the construction of the handle fails, whatever required is, and no
\* further ancestor is looked at
C7_FindNearest ==
    /\ FindNoneAndBound
    /\ (FindEnded /\ Candidates # {}) =>
           IF gitmeta[Nearest] = "ok"
           THEN fpc = "returned" /\ fresult = HandleAt(Nearest)
           ELSE /\ fpc = "raised"
                /\ fresult.exc \in {"Configuration file missing", "NoSectionError",
                                    "Unsupported repositoryformatversion"}
                /\ fpath = Nearest

\* a walk that climbed from start, past a ".git" file, to a repository
C7_Witness ==
    /\ fpc = "returned"
    /\ Candidates # {}
    /\ fresult = HandleAt(Nearest)
    /\ Nearest # RealPath(fstart)
    /\ fstart # RealPath(fstart)
    /\ \E p \in Ancestors(RealPath(fstart)) : gitmeta[p] = "file" /\ Len(p) > Len(Nearest)
    /\ fcalls >= 2

-----------------------------------------------------------------------------
\* Properties of the KVLM codec

KvlmEnded == kpc \in {"returned", "raised", "serialized"}

\* C1: parsing the serialization of a valid document gives the document
\* back: same keys in the same order, same values, same message
C1_ParseSerializeRoundTrip ==
    (kmode = "doc" /\ KvlmEnded) => (kpc # "raised" /\ kdict = kdoc)

\* C2: serializing the parse of a well-formed text gives the text back,
\* byte for byte
C2_SerializeParseRoundTrip ==
    (kmode = "text" /\ kpc \in {"raised", "serialized"}) =>
        (kpc = "serialized" /\ kout = raw)

\* C9: on every byte string kvlm_parse returns or raises; every recursive
\* call has a cursor beyond its caller's, and the scan only moves forward
C9_ParseTerminates ==
    /\ <>KvlmEnded
    /\ [][(kpc = "store" /\ kpc' = "call") => kstart' > kstart]_vars
    /\ [][(kpc = "scan" /\ kpc' \in {"scan", "store"}) => kend' > kend]_vars

====
